---------------------------- MODULE Spec2Model ----------------------------
(***************************************************************************)
(* Model of src/graduate_website_checker.py: StrictGraduateChecker         *)
(* (check_is_official, check_not_college_level, check_is_chinese,          *)
(* check_is_target_school, check_province_match, fetch_webpage,            *)
(* _init_browser, _close_browser, strict_judge) and the batch loop of      *)
(* main.                                                                   *)
(*                                                                         *)
(* Text.  A Python str is a sequence of Unicode code points, so '北京' is  *)
(* <<21271, 20140>> and '/xy/' is <<47, 120, 121, 47>>.  A cell that       *)
(* pandas read as a non-str value (an empty cell is the float NaN) is the  *)
(* value NaN.  Verdicts, failed_condition values and audit-trail labels    *)
(* are finite enumerations, written as TLA+ strings:                       *)
(*    "Yes" = '是'   "No" = '否'   "Uncertain" = '不确定'                  *)
(***************************************************************************)
EXTENDS Integers, Sequences, FiniteSets, TLC

\* A non-str cell value (float NaN); no str contains the code point -1.
NaN == <<-1>>

IsStr(s) == s # NaN

\* bool(x) of a cell value: '' is falsy, NaN and every non-empty str truthy.
Truthy(s) == s # <<>>

-----------------------------------------------------------------------------
(* str primitives *)

Min(a, b) == IF a <= b THEN a ELSE b

\* c.lower() for one code point: ASCII 'A'..'Z' map to 'a'..'z'.
LowerChar(c) == IF c >= 65 /\ c <= 90 THEN c + 32 ELSE c

\* s.lower()
Lower(s) == [i \in 1..Len(s) |-> LowerChar(s[i])]

\* s[i:i+len(sub)] == sub, i counted from 1
MatchAt(s, sub, i) ==
  /\ i >= 1
  /\ i + Len(sub) - 1 <= Len(s)
  /\ SubSeq(s, i, i + Len(sub) - 1) = sub

\* sub in s
Contains(s, sub) == \E i \in 1..(Len(s) - Len(sub) + 1) : MatchAt(s, sub, i)

\* s.endswith(suf)
EndsWith(s, suf) == Len(suf) <= Len(s) /\ MatchAt(s, suf, Len(s) - Len(suf) + 1)

\* s.startswith(pre)
StartsWith(s, pre) == MatchAt(s, pre, 1)

\* s.find(c, start) for one code point c, positions counted from 1; 0 if absent
FindChar(s, c, start) ==
  LET hits == {i \in start..Len(s) : s[i] = c}
  IN  IF hits = {} THEN 0 ELSE CHOOSE i \in hits : \A j \in hits : i <= j

RECURSIVE CountFrom(_, _, _)
CountFrom(s, sub, i) ==
  IF i + Len(sub) - 1 > Len(s) THEN 0
  ELSE IF MatchAt(s, sub, i) THEN 1 + CountFrom(s, sub, i + Len(sub))
  ELSE CountFrom(s, sub, i + 1)

\* s.count(sub): non-overlapping occurrences, left to right; len(s)+1 for ''
Count(s, sub) == IF sub = <<>> THEN Len(s) + 1 ELSE CountFrom(s, sub, 1)

RECURSIVE RemoveFrom(_, _, _)
RemoveFrom(s, old, i) ==
  IF i > Len(s) THEN <<>>
  ELSE IF MatchAt(s, old, i) THEN RemoveFrom(s, old, i + Len(old))
  ELSE <<s[i]>> \o RemoveFrom(s, old, i + 1)

\* s.replace(old, ''), old non-empty
Remove(s, old) == RemoveFrom(s, old, 1)

\* c.isspace()
IsSpace(c) ==
  \/ c \in {9, 10, 11, 12, 13, 28, 29, 30, 31, 32, 133, 160, 5760, 8232, 8233, 8239, 8287, 12288}
  \/ (c >= 8192 /\ c <= 8202)

\* s.strip()
Strip(s) ==
  LET keep == {i \in 1..Len(s) : ~IsSpace(s[i])}
  IN  IF keep = {} THEN <<>>
      ELSE SubSeq(s, CHOOSE i \in keep : \A j \in keep : i <= j,
                     CHOOSE i \in keep : \A j \in keep : i >= j)

\* len(re.findall(r'[\u4e00-\u9fff]', s))
CountCJK(s) == Cardinality({i \in 1..Len(s) : s[i] >= 19968 /\ s[i] <= 40959})

\* the distinct elements of a list
Range(f) == {f[i] : i \in 1..Len(f)}

-----------------------------------------------------------------------------
(* StaticRuleTables: StrictGraduateChecker.__init__ *)

\* self.college_path_patterns
college_path_patterns ==
  <<
    <<47, 99, 111, 108, 108, 101, 103, 101, 47>>,   \* '/college/'
    <<47, 115, 99, 104, 111, 111, 108, 47>>,   \* '/school/'
    <<47, 100, 101, 112, 116, 47>>,   \* '/dept/'
    <<47, 100, 101, 112, 97, 114, 116, 109, 101, 110, 116, 47>>,   \* '/department/'
    <<47, 120, 121, 47>>,   \* '/xy/'
    <<47, 121, 117, 97, 110, 120, 105, 47>>,   \* '/yuanxi/'
    <<47, 120, 117, 101, 121, 117, 97, 110, 47>>,   \* '/xueyuan/'
    <<47, 121, 120, 47>>,   \* '/yx/'
    <<47, 99, 111, 108, 108, 101, 103, 101, 115, 47>>,   \* '/colleges/'
    <<47, 115, 99, 104, 111, 111, 108, 115, 47>>,   \* '/schools/'
    <<47, 100, 101, 112, 97, 114, 116, 109, 101, 110, 116, 115, 47>>,   \* '/departments/'
    <<47, 121, 106, 115, 121, 47, 99, 111, 108, 108, 101, 103, 101, 47>>,   \* '/yjsy/college/'
    <<47, 103, 114, 97, 100, 117, 97, 116, 101, 47, 115, 99, 104, 111, 111, 108, 47>>,   \* '/graduate/school/'
    <<47, 121, 106, 115, 47, 120, 121, 47>>,   \* '/yjs/xy/'
    <<47, 103, 115, 47, 99, 111, 108, 108, 101, 103, 101, 47>>   \* '/gs/college/'
  >>

\* self.third_party_domains
third_party_domains ==
  <<
    <<99, 104, 115, 105, 46, 99, 111, 109, 46, 99, 110>>,   \* 'chsi.com.cn'
    <<107, 97, 111, 121, 97, 110, 46, 99, 111, 109>>,   \* 'kaoyan.com'
    <<121, 97, 110, 122, 104, 97, 111, 46, 110, 101, 116>>,   \* 'yanzhao.net'
    <<99, 104, 105, 110, 97, 107, 97, 111, 121, 97, 110, 46, 99, 111, 109>>,   \* 'chinakaoyan.com'
    <<107, 97, 111, 121, 97, 110, 51, 54, 53, 46, 99, 110>>,   \* 'kaoyan365.cn'
    <<101, 100, 117, 101, 105, 46, 99, 111, 109>>,   \* 'eduei.com'
    <<101, 111, 108, 46, 99, 110>>,   \* 'eol.cn'
    <<103, 97, 111, 107, 97, 111, 46, 99, 111, 109>>,   \* 'gaokao.com'
    <<98, 121, 115, 106, 121, 46, 99, 111, 109, 46, 99, 110>>   \* 'bysjy.com.cn'
  >>

\* self.multi_campus_schools
multi_campus_schools ==
  <<
    <<20013, 22269, 22320, 36136, 22823, 23398>>,   \* '中国地质大学'
    <<20013, 22269, 30707, 27833, 22823, 23398>>,   \* '中国石油大学'
    <<20013, 22269, 30719, 19994, 22823, 23398>>,   \* '中国矿业大学'
    <<21326, 21271, 30005, 21147, 22823, 23398>>   \* '华北电力大学'
  >>

\* self.province_variants, in insertion order (dict iteration order)
province_variants ==
  <<
    [province |-> <<21271, 20140>>, variants |-> <<<<21271, 20140>>, <<21271, 20140, 24066>>, <<20140>>>>],   \* '北京': ['北京', '北京市', '京']
    [province |-> <<19978, 28023>>, variants |-> <<<<19978, 28023>>, <<19978, 28023, 24066>>, <<27818>>>>],   \* '上海': ['上海', '上海市', '沪']
    [province |-> <<22825, 27941>>, variants |-> <<<<22825, 27941>>, <<22825, 27941, 24066>>, <<27941>>>>],   \* '天津': ['天津', '天津市', '津']
    [province |-> <<37325, 24198>>, variants |-> <<<<37325, 24198>>, <<37325, 24198, 24066>>, <<28189>>>>],   \* '重庆': ['重庆', '重庆市', '渝']
    [province |-> <<27827, 21271>>, variants |-> <<<<27827, 21271>>, <<27827, 21271, 30465>>, <<30707, 23478, 24196>>, <<30707, 23478, 24196, 24066>>, <<20864>>>>],   \* '河北': ['河北', '河北省', '石家庄', '石家庄市', '冀']
    [province |-> <<23665, 35199>>, variants |-> <<<<23665, 35199>>, <<23665, 35199, 30465>>, <<22826, 21407>>, <<22826, 21407, 24066>>, <<26187>>>>],   \* '山西': ['山西', '山西省', '太原', '太原市', '晋']
    [province |-> <<36797, 23425>>, variants |-> <<<<36797, 23425>>, <<36797, 23425, 30465>>, <<27784, 38451>>, <<27784, 38451, 24066>>, <<36797>>>>],   \* '辽宁': ['辽宁', '辽宁省', '沈阳', '沈阳市', '辽']
    [province |-> <<21513, 26519>>, variants |-> <<<<21513, 26519>>, <<21513, 26519, 30465>>, <<38271, 26149>>, <<38271, 26149, 24066>>, <<21513>>>>],   \* '吉林': ['吉林', '吉林省', '长春', '长春市', '吉']
    [province |-> <<40657, 40857, 27743>>, variants |-> <<<<40657, 40857, 27743>>, <<40657, 40857, 27743, 30465>>, <<21704, 23572, 28392>>, <<21704, 23572, 28392, 24066>>, <<40657>>>>],   \* '黑龙江': ['黑龙江', '黑龙江省', '哈尔滨', '哈尔滨市', '黑']
    [province |-> <<27743, 33487>>, variants |-> <<<<27743, 33487>>, <<27743, 33487, 30465>>, <<21335, 20140>>, <<21335, 20140, 24066>>, <<33487>>>>],   \* '江苏': ['江苏', '江苏省', '南京', '南京市', '苏']
    [province |-> <<27993, 27743>>, variants |-> <<<<27993, 27743>>, <<27993, 27743, 30465>>, <<26477, 24030>>, <<26477, 24030, 24066>>, <<27993>>>>],   \* '浙江': ['浙江', '浙江省', '杭州', '杭州市', '浙']
    [province |-> <<23433, 24509>>, variants |-> <<<<23433, 24509>>, <<23433, 24509, 30465>>, <<21512, 32933>>, <<21512, 32933, 24066>>, <<30358>>>>],   \* '安徽': ['安徽', '安徽省', '合肥', '合肥市', '皖']
    [province |-> <<31119, 24314>>, variants |-> <<<<31119, 24314>>, <<31119, 24314, 30465>>, <<31119, 24030>>, <<31119, 24030, 24066>>, <<38397>>>>],   \* '福建': ['福建', '福建省', '福州', '福州市', '闽']
    [province |-> <<27743, 35199>>, variants |-> <<<<27743, 35199>>, <<27743, 35199, 30465>>, <<21335, 26124>>, <<21335, 26124, 24066>>, <<36195>>>>],   \* '江西': ['江西', '江西省', '南昌', '南昌市', '赣']
    [province |-> <<23665, 19996>>, variants |-> <<<<23665, 19996>>, <<23665, 19996, 30465>>, <<27982, 21335>>, <<27982, 21335, 24066>>, <<40065>>>>],   \* '山东': ['山东', '山东省', '济南', '济南市', '鲁']
    [province |-> <<27827, 21335>>, variants |-> <<<<27827, 21335>>, <<27827, 21335, 30465>>, <<37073, 24030>>, <<37073, 24030, 24066>>, <<35947>>>>],   \* '河南': ['河南', '河南省', '郑州', '郑州市', '豫']
    [province |-> <<28246, 21271>>, variants |-> <<<<28246, 21271>>, <<28246, 21271, 30465>>, <<27494, 27721>>, <<27494, 27721, 24066>>, <<37122>>>>],   \* '湖北': ['湖北', '湖北省', '武汉', '武汉市', '鄂']
    [province |-> <<28246, 21335>>, variants |-> <<<<28246, 21335>>, <<28246, 21335, 30465>>, <<38271, 27801>>, <<38271, 27801, 24066>>, <<28248>>>>],   \* '湖南': ['湖南', '湖南省', '长沙', '长沙市', '湘']
    [province |-> <<24191, 19996>>, variants |-> <<<<24191, 19996>>, <<24191, 19996, 30465>>, <<24191, 24030>>, <<24191, 24030, 24066>>, <<31908>>>>],   \* '广东': ['广东', '广东省', '广州', '广州市', '粤']
    [province |-> <<28023, 21335>>, variants |-> <<<<28023, 21335>>, <<28023, 21335, 30465>>, <<28023, 21475>>, <<28023, 21475, 24066>>, <<29756>>>>],   \* '海南': ['海南', '海南省', '海口', '海口市', '琼']
    [province |-> <<22235, 24029>>, variants |-> <<<<22235, 24029>>, <<22235, 24029, 30465>>, <<25104, 37117>>, <<25104, 37117, 24066>>, <<24029>>, <<34560>>>>],   \* '四川': ['四川', '四川省', '成都', '成都市', '川', '蜀']
    [province |-> <<36149, 24030>>, variants |-> <<<<36149, 24030>>, <<36149, 24030, 30465>>, <<36149, 38451>>, <<36149, 38451, 24066>>, <<36149>>, <<40660>>>>],   \* '贵州': ['贵州', '贵州省', '贵阳', '贵阳市', '贵', '黔']
    [province |-> <<20113, 21335>>, variants |-> <<<<20113, 21335>>, <<20113, 21335, 30465>>, <<26118, 26126>>, <<26118, 26126, 24066>>, <<20113>>, <<28359>>>>],   \* '云南': ['云南', '云南省', '昆明', '昆明市', '云', '滇']
    [province |-> <<38485, 35199>>, variants |-> <<<<38485, 35199>>, <<38485, 35199, 30465>>, <<35199, 23433>>, <<35199, 23433, 24066>>, <<38485>>, <<31206>>>>],   \* '陕西': ['陕西', '陕西省', '西安', '西安市', '陕', '秦']
    [province |-> <<29976, 32899>>, variants |-> <<<<29976, 32899>>, <<29976, 32899, 30465>>, <<20848, 24030>>, <<20848, 24030, 24066>>, <<29976>>, <<38471>>>>],   \* '甘肃': ['甘肃', '甘肃省', '兰州', '兰州市', '甘', '陇']
    [province |-> <<38738, 28023>>, variants |-> <<<<38738, 28023>>, <<38738, 28023, 30465>>, <<35199, 23425>>, <<35199, 23425, 24066>>, <<38738>>>>],   \* '青海': ['青海', '青海省', '西宁', '西宁市', '青']
    [province |-> <<21488, 28286>>, variants |-> <<<<21488, 28286>>, <<21488, 28286, 30465>>, <<21488, 21271>>, <<21488, 21271, 24066>>, <<21488>>>>],   \* '台湾': ['台湾', '台湾省', '台北', '台北市', '台']
    [province |-> <<20869, 33945, 21476>>, variants |-> <<<<20869, 33945, 21476>>, <<20869, 33945, 21476, 33258, 27835, 21306>>, <<21628, 21644, 28009, 29305>>, <<21628, 21644, 28009, 29305, 24066>>, <<33945>>>>],   \* '内蒙古': ['内蒙古', '内蒙古自治区', '呼和浩特', '呼和浩特市', '蒙']
    [province |-> <<24191, 35199>>, variants |-> <<<<24191, 35199>>, <<24191, 35199, 22766, 26063, 33258, 27835, 21306>>, <<21335, 23425>>, <<21335, 23425, 24066>>, <<26690>>>>],   \* '广西': ['广西', '广西壮族自治区', '南宁', '南宁市', '桂']
    [province |-> <<35199, 34255>>, variants |-> <<<<35199, 34255>>, <<35199, 34255, 33258, 27835, 21306>>, <<25289, 33832>>, <<25289, 33832, 24066>>, <<34255>>>>],   \* '西藏': ['西藏', '西藏自治区', '拉萨', '拉萨市', '藏']
    [province |-> <<23425, 22799>>, variants |-> <<<<23425, 22799>>, <<23425, 22799, 22238, 26063, 33258, 27835, 21306>>, <<38134, 24029>>, <<38134, 24029, 24066>>, <<23425>>>>],   \* '宁夏': ['宁夏', '宁夏回族自治区', '银川', '银川市', '宁']
    [province |-> <<26032, 30086>>, variants |-> <<<<26032, 30086>>, <<26032, 30086, 32500, 21566, 23572, 33258, 27835, 21306>>, <<20044, 40065, 26408, 40784>>, <<20044, 40065, 26408, 40784, 24066>>, <<26032>>>>],   \* '新疆': ['新疆', '新疆维吾尔自治区', '乌鲁木齐', '乌鲁木齐市', '新']
    [province |-> <<39321, 28207>>, variants |-> <<<<39321, 28207>>, <<39321, 28207, 29305, 21035, 34892, 25919, 21306>>, <<28207>>>>],   \* '香港': ['香港', '香港特别行政区', '港']
    [province |-> <<28595, 38376>>, variants |-> <<<<28595, 38376>>, <<28595, 38376, 29305, 21035, 34892, 25919, 21306>>, <<28595>>>>]   \* '澳门': ['澳门', '澳门特别行政区', '澳']
  >>

-----------------------------------------------------------------------------
(* Program constants *)

\* fetch_webpage(self, url, max_retries=3)
MaxRetries == 3

\* if college_count > 5
CollegeCountThreshold == 5

\* all_text[-1000:]
FooterTailChars == 1000

\* ([^\n]{10,100})
AddressMinLen == 10

AddressMaxLen == 100

(* Bound of the model *)

\* the largest number of rows of the input file
MaxRecords == 2

-----------------------------------------------------------------------------
(* Sample texts *)

\* 'http://a.edu.cn'
url_ok == <<104, 116, 116, 112, 58, 47, 47, 97, 46, 101, 100, 117, 46, 99, 110>>

\* 'HTTP://A.EDU.CN/'
url_upper == <<72, 84, 84, 80, 58, 47, 47, 65, 46, 69, 68, 85, 46, 67, 78, 47>>

\* 'http://a.edu.cn/xy/'
url_college == <<104, 116, 116, 112, 58, 47, 47, 97, 46, 101, 100, 117, 46, 99, 110, 47, 120, 121, 47>>

\* 'http://a.edu.cn/XY/zs'
url_college_upper == <<104, 116, 116, 112, 58, 47, 47, 97, 46, 101, 100, 117, 46, 99, 110, 47, 88, 89, 47, 122, 115>>

\* 'https://gs.chsi.com.cn'
url_chsi == <<104, 116, 116, 112, 115, 58, 47, 47, 103, 115, 46, 99, 104, 115, 105, 46, 99, 111, 109, 46, 99, 110>>

\* 'https://gs.chsi.com.cn/xy/'
url_chsi_college == <<104, 116, 116, 112, 115, 58, 47, 47, 103, 115, 46, 99, 104, 115, 105, 46, 99, 111, 109, 46, 99, 110, 47, 120, 121, 47>>

\* 'http://chsi.com.cn.edu.cn'
url_blacklisted == <<104, 116, 116, 112, 58, 47, 47, 99, 104, 115, 105, 46, 99, 111, 109, 46, 99, 110, 46, 101, 100, 117, 46, 99, 110>>

\* 'a.edu.cn'
url_no_scheme == <<97, 46, 101, 100, 117, 46, 99, 110>>

\* 'http://a.edu.cn:8080/'
url_port == <<104, 116, 116, 112, 58, 47, 47, 97, 46, 101, 100, 117, 46, 99, 110, 58, 56, 48, 56, 48, 47>>

\* 'http://[a.edu.cn'
url_bracket == <<104, 116, 116, 112, 58, 47, 47, 91, 97, 46, 101, 100, 117, 46, 99, 110>>

\* 'http://b.edu.cn/'
url_other == <<104, 116, 116, 112, 58, 47, 47, 98, 46, 101, 100, 117, 46, 99, 110, 47>>

\* 'http://b.edu.cn/xy/'
url_other_college == <<104, 116, 116, 112, 58, 47, 47, 98, 46, 101, 100, 117, 46, 99, 110, 47, 120, 121, 47>>

\* 'http://a.com/'
url_com == <<104, 116, 116, 112, 58, 47, 47, 97, 46, 99, 111, 109, 47>>

\* '北京大学'
school_pku == <<21271, 20140, 22823, 23398>>

\* '中国地质大学'
school_cug == <<20013, 22269, 22320, 36136, 22823, 23398>>

\* '中国地质大学（武汉）'
school_cug_wuhan == <<20013, 22269, 22320, 36136, 22823, 23398, 65288, 27494, 27721, 65289>>

\* '文学院'
college_wen == <<25991, 23398, 38498>>

\* '北京'
prov_beijing == <<21271, 20140>>

\* '湖北'
prov_hubei == <<28246, 21271>>

\* '北京大学研究生招生网'
title_pku == <<21271, 20140, 22823, 23398, 30740, 31350, 29983, 25307, 29983, 32593>>

\* ' 中国地质大学研究生院\n'
title_cug == <<32, 20013, 22269, 22320, 36136, 22823, 23398, 30740, 31350, 29983, 38498, 10>>

\* 'Graduate Admission'
title_latin == <<71, 114, 97, 100, 117, 97, 116, 101, 32, 65, 100, 109, 105, 115, 115, 105, 111, 110>>

\* ' \n'
title_blank == <<32, 10>>

\* '研究生招生信息网'
title_generic == <<30740, 31350, 29983, 25307, 29983, 20449, 24687, 32593>>

\* '北京大学文学院研究生招生'
title_college == <<21271, 20140, 22823, 23398, 25991, 23398, 38498, 30740, 31350, 29983, 25307, 29983>>

\* '北京大学 北京大学 北京大学 北京大学'
text_pku4 == <<21271, 20140, 22823, 23398, 32, 21271, 20140, 22823, 23398, 32, 21271, 20140, 22823, 23398, 32, 21271, 20140, 22823, 23398>>

\* '欢迎报考中国地质大学 北京大学'
text_both == <<27426, 36814, 25253, 32771, 20013, 22269, 22320, 36136, 22823, 23398, 32, 21271, 20140, 22823, 23398>>

\* '欢迎报考'
text_none == <<27426, 36814, 25253, 32771>>

\* '北京大学 文学院 文学院 文学院 文学院 文学院'
text_college5 == <<21271, 20140, 22823, 23398, 32, 25991, 23398, 38498, 32, 25991, 23398, 38498, 32, 25991, 23398, 38498, 32, 25991, 23398, 38498, 32, 25991, 23398, 38498>>

\* '地址：湖北省武汉市洪山区鲁磨路388号 北京市海淀区学院路29号'
footer_two == <<22320, 22336, 65306, 28246, 21271, 30465, 27494, 27721, 24066, 27946, 23665, 21306, 40065, 30952, 36335, 51, 56, 56, 21495, 32, 21271, 20140, 24066, 28023, 28096, 21306, 23398, 38498, 36335, 50, 57, 21495>>

\* '地址: 武汉市洪山区鲁磨路388号 鄂ICP备'
footer_wuhan == <<22320, 22336, 58, 32, 27494, 27721, 24066, 27946, 23665, 21306, 40065, 30952, 36335, 51, 56, 56, 21495, 32, 37122, 73, 67, 80, 22791>>

\* 'Address：北京市海淀区学院路29号'
footer_beijing == <<65, 100, 100, 114, 101, 115, 115, 65306, 21271, 20140, 24066, 28023, 28096, 21306, 23398, 38498, 36335, 50, 57, 21495>>

\* '北京市海淀区 南京市玄武区'
footer_two_other == <<21271, 20140, 24066, 28023, 28096, 21306, 32, 21335, 20140, 24066, 29572, 27494, 21306>>

\* '北京 地址：武汉市鲁磨路'
footer_short_addr == <<21271, 20140, 32, 22320, 22336, 65306, 27494, 27721, 24066, 40065, 30952, 36335>>

\* '版权所有 京ICP备'
footer_no_prov == <<29256, 26435, 25152, 26377, 32, 20140, 73, 67, 80, 22791>>

-----------------------------------------------------------------------------
(* Values of the html argument.  A fetched page is the document            *)
(* BeautifulSoup parses out of it:                                         *)
(*   title     soup.title.string (NoneVal when there is no <title>, or it  *)
(*             has no single string)                                       *)
(*   segments  the text-bearing elements of the body in document order,    *)
(*             each with its tag: "div" for ordinary content, "script" for *)
(*             a script or style element, and "footer", "div.footer",      *)
(*             "div#footer", "div.bottom", "div#bottom" for the elements   *)
(*             extract_footer looks for.                                   *)

\* Python None where a str is expected
NoneVal == <<-2>>

\* html=None (the URL-layer call of check_not_college_level)
HtmlNone == [kind |-> "none"]

\* html == '' (what fetch_webpage returns with status 0)
HtmlEmpty == [kind |-> "empty"]

\* bool(html)
HtmlTruthy(html) == html.kind = "page"

\* title = soup.title.string if soup.title else ""; title = title.strip() if title else ""
PageTitle(html) == IF html.title = NoneVal THEN <<>> ELSE Strip(html.title)

\* ' '.join(strings), the empty strings dropped
RECURSIVE JoinStripped(_)
JoinStripped(strings) ==
  IF strings = <<>> THEN <<>>
  ELSE LET h == Strip(Head(strings))
           t == JoinStripped(Tail(strings))
       IN  IF h = <<>> THEN t
           ELSE IF t = <<>> THEN h
           ELSE h \o <<32>> \o t

\* soup.get_text(separator=' ', strip=True): the title and every element's
\* text; without the script and style elements once they were decomposed
GetText(html, decomposed) ==
  LET kept == SelectSeq(html.segments, LAMBDA g : ~(decomposed /\ g.tag = "script"))
  IN  JoinStripped((IF html.title = NoneVal THEN <<>> ELSE <<html.title>>)
                   \o [i \in 1..Len(kept) |-> kept[i].text])

-----------------------------------------------------------------------------
(* urllib.parse.urlparse(url).netloc *)

IsAsciiAlpha(c) == (c >= 65 /\ c <= 90) \/ (c >= 97 /\ c <= 122)

\* urllib.parse.scheme_chars
IsSchemeChar(c) == IsAsciiAlpha(c) \/ (c >= 48 /\ c <= 57) \/ c \in {43, 45, 46}

\* urlsplit: the url with a leading 'scheme:' removed
AfterScheme(url) ==
  LET i == FindChar(url, 58, 1)
  IN  IF i > 1 /\ IsAsciiAlpha(url[1]) /\ \A k \in 1..(i - 1) : IsSchemeChar(url[k])
      THEN SubSeq(url, i + 1, Len(url))
      ELSE url

\* urlsplit/_splitnetloc: the text between '//' and the first of '/', '?', '#'
Netloc(url) ==
  LET rest   == AfterScheme(url)
      delims == {FindChar(rest, c, 3) : c \in {47, 63, 35}} \ {0}
      delim  == IF delims = {} THEN Len(rest) + 1
                ELSE CHOOSE d \in delims : \A e \in delims : d <= e
  IN  IF StartsWith(rest, <<47, 47>>) THEN SubSeq(rest, 3, delim - 1) ELSE <<>>

\* urlparse raises: a non-str argument, or ValueError("Invalid IPv6 URL")
UrlparseRaises(url) ==
  \/ ~IsStr(url)
  \/ LET n == Netloc(url)
     IN  Contains(n, <<91>>) # Contains(n, <<93>>)

-----------------------------------------------------------------------------
(* The condition checks.  Each returns [passed, kind, arg]: kind names the  *)
(* reason string's format and arg is the value formatted into it.           *)

Outcome(p, k, a) == [passed |-> p, kind |-> k, arg |-> a]

dot_edu_cn == <<46, 101, 100, 117, 46, 99, 110>>   \* '.edu.cn'

\* check_is_official without the .edu.cn test
check_is_official_any_suffix(url) ==
  IF UrlparseRaises(url) THEN Outcome(FALSE, "url_parse_failed", <<>>)
  ELSE LET domain == Lower(Netloc(url))
       IN  IF \E i \in 1..Len(third_party_domains) :
                 Contains(domain, third_party_domains[i])
           THEN Outcome(FALSE, "third_party", domain)
           ELSE Outcome(TRUE, "official_ok", domain)

\* check_is_official with the blacklist consulted before the .edu.cn test
check_is_official_blacklist_first(url) ==
  IF UrlparseRaises(url) THEN Outcome(FALSE, "url_parse_failed", <<>>)
  ELSE LET domain == Lower(Netloc(url))
       IN  IF \E i \in 1..Len(third_party_domains) :
                 Contains(domain, third_party_domains[i])
           THEN Outcome(FALSE, "third_party", domain)
           ELSE IF ~EndsWith(domain, dot_edu_cn)
           THEN Outcome(FALSE, "not_edu_cn", domain)
           ELSE Outcome(TRUE, "official_ok", domain)

\* check_is_official
check_is_official(url) ==
  IF UrlparseRaises(url) THEN Outcome(FALSE, "url_parse_failed", <<>>)
  ELSE LET domain == Lower(Netloc(url))
       IN  IF ~EndsWith(domain, dot_edu_cn)
           THEN Outcome(FALSE, "not_edu_cn", domain)
           ELSE IF \E i \in 1..Len(third_party_domains) :
                      Contains(domain, third_party_domains[i])
           THEN Outcome(FALSE, "third_party", domain)
           ELSE Outcome(TRUE, "official_ok", domain)

\* check_not_college_level matching the patterns against the url as given
check_not_college_level_cased(url, college_name, html) ==
  LET url_lower == url
      hits      == {i \in 1..Len(college_path_patterns) :
                       Contains(url_lower, college_path_patterns[i])}
      title     == PageTitle(html)
      count     == Count(GetText(html, TRUE), college_name)
      ok        == Outcome(TRUE, "not_college_ok", <<>>)
  IN  IF hits # {}
      THEN Outcome(FALSE, "url_college_path",
                   college_path_patterns[CHOOSE i \in hits : \A j \in hits : i <= j])
      ELSE IF ~(HtmlTruthy(html) /\ Truthy(college_name)) THEN ok
      ELSE IF ~IsStr(college_name) THEN ok   \* TypeError in 'in', caught and logged
      ELSE IF Contains(title, college_name)
      THEN Outcome(FALSE, "title_has_college", title)
      ELSE IF count > CollegeCountThreshold
      THEN Outcome(FALSE, "college_count", <<count>>)
      ELSE ok

\* check_not_college_level failing from CollegeCountThreshold occurrences on
check_not_college_level_inclusive(url, college_name, html) ==
  LET url_lower == Lower(url)
      hits      == {i \in 1..Len(college_path_patterns) :
                       Contains(url_lower, college_path_patterns[i])}
      title     == PageTitle(html)
      count     == Count(GetText(html, TRUE), college_name)
      ok        == Outcome(TRUE, "not_college_ok", <<>>)
  IN  IF hits # {}
      THEN Outcome(FALSE, "url_college_path",
                   college_path_patterns[CHOOSE i \in hits : \A j \in hits : i <= j])
      ELSE IF ~(HtmlTruthy(html) /\ Truthy(college_name)) THEN ok
      ELSE IF ~IsStr(college_name) THEN ok
      ELSE IF Contains(title, college_name)
      THEN Outcome(FALSE, "title_has_college", title)
      ELSE IF count >= CollegeCountThreshold
      THEN Outcome(FALSE, "college_count", <<count>>)
      ELSE ok

\* check_not_college_level
check_not_college_level(url, college_name, html) ==
  LET url_lower == Lower(url)
      hits      == {i \in 1..Len(college_path_patterns) :
                       Contains(url_lower, college_path_patterns[i])}
      title     == PageTitle(html)
      count     == Count(GetText(html, TRUE), college_name)
      ok        == Outcome(TRUE, "not_college_ok", <<>>)
  IN  IF hits # {}
      THEN Outcome(FALSE, "url_college_path",
                   college_path_patterns[CHOOSE i \in hits : \A j \in hits : i <= j])
      ELSE IF ~(HtmlTruthy(html) /\ Truthy(college_name)) THEN ok
      ELSE IF ~IsStr(college_name) THEN ok   \* TypeError in 'in', caught and logged
      ELSE IF Contains(title, college_name)
      THEN Outcome(FALSE, "title_has_college", title)
      ELSE IF count > CollegeCountThreshold
      THEN Outcome(FALSE, "college_count", <<count>>)
      ELSE ok

\* check_is_chinese that takes any non-empty title
check_is_chinese_any_title(url, html) ==
  IF ~HtmlTruthy(html) THEN Outcome(FALSE, "no_html", <<>>)
  ELSE IF PageTitle(html) = <<>> THEN Outcome(FALSE, "empty_title", <<>>)
  ELSE Outcome(TRUE, "chinese_ok", <<Len(PageTitle(html))>>)

\* check_is_chinese
check_is_chinese(url, html) ==
  IF ~HtmlTruthy(html) THEN Outcome(FALSE, "no_html", <<>>)
  ELSE LET title == PageTitle(html)
           chinese_chars == CountCJK(title)
       IN  IF title = <<>> THEN Outcome(FALSE, "empty_title", <<>>)
           ELSE IF chinese_chars > 0 THEN Outcome(TRUE, "chinese_ok", <<chinese_chars>>)
           ELSE Outcome(FALSE, "no_chinese", title)

daxue == <<22823, 23398>>     \* '大学'

xueyuan == <<23398, 38498>>   \* '学院'

\* check_is_target_school that lets a school name that is not a str through
check_is_target_school_unguarded(url, school_name, html) ==
  IF ~HtmlTruthy(html) THEN Outcome(FALSE, "no_html", <<>>)
  ELSE IF ~IsStr(school_name) THEN Outcome(TRUE, "school_in_title", <<>>)
  ELSE IF Contains(PageTitle(html), school_name)
  THEN Outcome(TRUE, "school_in_title", PageTitle(html))
  ELSE IF Count(GetText(html, TRUE), school_name) >= 1
  THEN Outcome(TRUE, "school_in_body", <<>>)
  ELSE Outcome(FALSE, "school_absent", PageTitle(html))

\* check_is_target_school that wants the school name twice in the text
check_is_target_school_twice(url, school_name, html) ==
  IF ~HtmlTruthy(html) THEN Outcome(FALSE, "no_html", <<>>)
  ELSE IF ~IsStr(school_name) THEN Outcome(FALSE, "parse_failed", <<>>)
  ELSE IF Contains(PageTitle(html), school_name)
          \/ Contains(PageTitle(html), Remove(Remove(school_name, daxue), xueyuan))
  THEN Outcome(TRUE, "school_in_title", PageTitle(html))
  ELSE IF Count(GetText(html, TRUE), school_name) >= 2
  THEN Outcome(TRUE, "school_in_body", <<>>)
  ELSE Outcome(FALSE, "school_absent", PageTitle(html))

\* check_is_target_school
check_is_target_school(url, school_name, html) ==
  IF ~HtmlTruthy(html) THEN Outcome(FALSE, "no_html", <<>>)
  ELSE IF ~IsStr(school_name)
  THEN Outcome(FALSE, "parse_failed", <<>>)   \* AttributeError in .replace, caught
  ELSE LET title        == PageTitle(html)
           school_short == Remove(Remove(school_name, daxue), xueyuan)
           school_count == Count(GetText(html, TRUE), school_name)
       IN  IF Contains(title, school_name) \/ Contains(title, school_short)
           THEN Outcome(TRUE, "school_in_title", title)
           ELSE IF school_count >= 1
           THEN Outcome(TRUE, "school_in_body", <<school_count>>)
           ELSE Outcome(FALSE, "school_absent", title)

\* is_multi_campus_school by equality with a listed name
is_multi_campus_school_exact(school_name) ==
  \E i \in 1..Len(multi_campus_schools) : school_name = multi_campus_schools[i]

\* is_multi_campus_school
is_multi_campus_school(school_name) ==
  \E i \in 1..Len(multi_campus_schools) : Contains(school_name, multi_campus_schools[i])

\* all_text[-1000:] if len(all_text) > 1000 else all_text
LastChars(s, n) == IF Len(s) > n THEN SubSeq(s, Len(s) - n + 1, Len(s)) ELSE s

\* the selectors extract_footer tries, in order
footer_selectors == <<"footer", "div.footer", "div#footer", "div.bottom", "div#bottom">>

\* soup.find(selector): the position of the first such element, 0 for None
FindTag(html, tag) ==
  LET hits == {i \in 1..Len(html.segments) : html.segments[i].tag = tag}
  IN  IF hits = {} THEN 0 ELSE CHOOSE i \in hits : \A j \in hits : i <= j

\* extract_footer
extract_footer(html) ==
  LET found == {k \in 1..Len(footer_selectors) : FindTag(html, footer_selectors[k]) # 0}
      first == CHOOSE k \in found : \A j \in found : k <= j
  IN  IF found # {}
      THEN Strip(html.segments[FindTag(html, footer_selectors[first])].text)
      ELSE LastChars(GetText(html, FALSE), FooterTailChars)

\* c matches \s in a str pattern
IsReSpace(c) == IsSpace(c)

\* the number of consecutive \s characters from position i on
RECURSIVE SpaceRun(_, _)
SpaceRun(s, i) == IF i > Len(s) \/ ~IsReSpace(s[i]) THEN 0 ELSE 1 + SpaceRun(s, i + 1)

\* the number of consecutive [^\n] characters from position i on
RECURSIVE LineRun(_, _)
LineRun(s, i) == IF i > Len(s) \/ s[i] = 10 THEN 0 ELSE 1 + LineRun(s, i + 1)

\* \s*([^\n]{10,100}) tried at position p: the greedy \s* gives characters
\* back until the group finds AddressMinLen characters; <<start, end>> of
\* the group, or <<0, 0>> when there is no match
AddressGroupAt(s, p) ==
  LET w    == SpaceRun(s, p)
      good == {k \in 0..w : LineRun(s, p + k) >= AddressMinLen}
      k    == CHOOSE x \in good : \A y \in good : x >= y
      g    == p + k
  IN  IF good = {} THEN <<0, 0>>
      ELSE <<g, g + Min(LineRun(s, g), AddressMaxLen) - 1>>

\* re.findall(keyword + r'[:：]\s*([^\n]{10,100})', s) scanning from position i
RECURSIVE FindAddresses(_, _, _)
FindAddresses(s, keyword, i) ==
  IF i > Len(s) THEN <<>>
  ELSE LET p == i + Len(keyword)
           colon == MatchAt(s, keyword, i) /\ p <= Len(s) /\ s[p] \in {58, 65306}
           grp == AddressGroupAt(s, p + 1)
       IN  IF colon /\ grp[1] # 0
           THEN <<SubSeq(s, grp[1], grp[2])>> \o FindAddresses(s, keyword, grp[2] + 1)
           ELSE FindAddresses(s, keyword, i + 1)

dizhi == <<22320, 22336>>   \* '地址'

Address == <<65, 100, 100, 114, 101, 115, 115>>   \* 'Address'

\* address_patterns, by their keyword
address_patterns == <<dizhi, dizhi, Address>>

\* the provinces one address text names, in the table's order
ProvincesIn(address_text) ==
  SelectSeq(province_variants,
            LAMBDA e : \E j \in 1..Len(e.variants) :
                          Len(e.variants[j]) # 1 /\ Contains(address_text, e.variants[j]))

\* appends to found the provinces of list not yet in it
RECURSIVE AppendNew(_, _)
AppendNew(found, list) ==
  IF list = <<>> THEN found
  ELSE AppendNew(IF Head(list).province \in Range(found) THEN found
                 ELSE Append(found, Head(list).province),
                 Tail(list))

RECURSIVE ScanAddresses(_, _)
ScanAddresses(found, address_texts) ==
  IF address_texts = <<>> THEN found
  ELSE ScanAddresses(AppendNew(found, ProvincesIn(Head(address_texts))), Tail(address_texts))

\* extract_provinces_from_footer
extract_provinces_from_footer(footer_text) ==
  LET matches == FindAddresses(footer_text, address_patterns[1], 1)
                 \o FindAddresses(footer_text, address_patterns[2], 1)
                 \o FindAddresses(footer_text, address_patterns[3], 1)
      address_texts == IF matches = <<>> THEN <<footer_text>> ELSE matches
  IN  ScanAddresses(<<>>, address_texts)

ProvinceOutcome(c, r, k, a) == [certain |-> c, result |-> r, kind |-> k, arg |-> a]

\* the branches of check_province_match on footer_text and extracted_provinces
ProvinceDecision(csv_province, footer_text, extracted_provinces) ==
  IF footer_text = <<>>
  THEN ProvinceOutcome(FALSE, "Uncertain", "no_footer", <<>>)
  ELSE IF extracted_provinces = <<>>
  THEN ProvinceOutcome(FALSE, "Uncertain", "no_province", <<>>)
  ELSE IF Len(extracted_provinces) = 1
  THEN IF extracted_provinces[1] = csv_province
       THEN ProvinceOutcome(TRUE, "Yes", "province_match", extracted_provinces)
       ELSE ProvinceOutcome(TRUE, "No", "province_differs", extracted_provinces)
  ELSE IF csv_province \in Range(extracted_provinces)
  THEN ProvinceOutcome(FALSE, "Uncertain", "multi_campus_address", extracted_provinces)
  ELSE ProvinceOutcome(TRUE, "No", "province_absent", extracted_provinces)

\* extracted_provinces = self.extract_provinces_from_footer(footer_text)
ProvinceOfFooter(csv_province, footer_text) ==
  ProvinceDecision(csv_province, footer_text, extract_provinces_from_footer(footer_text))

\* check_province_match that takes a footer naming the target province among
\* several as a match
check_province_match_any(csv_province, html) ==
  LET o == ProvinceOfFooter(csv_province, extract_footer(html))
  IN  IF o.kind = "multi_campus_address"
      THEN ProvinceOutcome(TRUE, "Yes", "province_match", o.arg)
      ELSE o

\* check_province_match: footer_text = self.extract_footer(html), then the branches
check_province_match(csv_province, html) ==
  ProvinceOfFooter(csv_province, extract_footer(html))

-----------------------------------------------------------------------------
(* Inputs: the rows of the input file and what the network can answer *)

Row(p, s, c, u) == [province |-> p, school |-> s, college |-> c, url |-> u]

\* rows whose URL fails a check made before the fetch
RejectedUrls ==
  { url_college, url_college_upper, url_chsi, url_chsi_college, url_blacklisted,
    url_no_scheme, url_port, url_bracket, url_com, NaN }

\* rows whose URL is fetched
FetchedUrls == {url_ok, url_upper}

\* the (province, school, college) columns
Profiles ==
  { <<prov_beijing, school_pku, <<>>>>,
    <<<<>>, school_pku, college_wen>>,
    <<prov_hubei, school_cug, <<>>>>,
    <<prov_hubei, school_cug_wuhan, college_wen>>,
    <<<<>>, school_cug, NaN>>,
    <<prov_hubei, NaN, <<>>>> }

Records ==
  {Row(p[1], p[2], p[3], url_ok) : p \in Profiles}
  \cup {Row(prov_hubei, school_cug, <<>>, url_upper)}
  \cup {Row(<<>>, school_pku, college_wen, u) : u \in RejectedUrls}

Seg(tag, text) == [tag |-> tag, text |-> text]

Page(t, segs) == [kind |-> "page", title |-> t, segments |-> segs]

\* page.content() of the pages a navigation can load
Pages ==
  { Page(title_pku, <<Seg("div", text_pku4)>>),
    Page(title_latin, <<Seg("div", text_both)>>),
    Page(NoneVal, <<Seg("div", text_both)>>),
    Page(title_blank, <<Seg("div", text_both)>>),
    Page(title_generic, <<Seg("div", text_both)>>),
    Page(title_generic, <<Seg("div", text_none), Seg("script", school_pku)>>),
    Page(title_college, <<Seg("div", text_both)>>),
    Page(title_pku, <<Seg("div", text_college5)>>),
    Page(title_pku, <<Seg("div", text_college5), Seg("div", college_wen)>>),
    Page(title_cug, <<Seg("div", text_none), Seg("footer", footer_two)>>),
    Page(title_cug, <<Seg("div", school_cug_wuhan), Seg("div.bottom", footer_beijing),
                      Seg("div#footer", footer_wuhan)>>),
    Page(title_cug, <<Seg("div", text_none), Seg("div.footer", footer_beijing)>>),
    Page(title_cug, <<Seg("div", footer_two_other)>>),
    Page(title_cug, <<Seg("div", text_none), Seg("div#bottom", footer_short_addr)>>),
    Page(title_cug, <<Seg("div", text_none), Seg("footer", footer_no_prov)>>),
    Page(title_cug, <<Seg("footer", <<32>>), Seg("div.footer", footer_wuhan)>>) }

\* what page.content() can give: one of the pages, or the empty string
Contents == Pages \cup {HtmlEmpty}

\* page.url after a navigation of url: no redirect, or a redirect
LandingUrls(url) == {url, url_other, url_other_college, url_com, url_blacklisted}

\* response.status of a navigation; ResponseNone: page.goto returned None
ResponseNone == -1

Responses == {200, 404, ResponseNone}

-----------------------------------------------------------------------------
(* State *)

VARIABLES
  nrecords,      \* len(df)
  idx,           \* rows of df iterated so far
  results,       \* main: results, the '判断结果' of each entry
  pc,            \* position in main / strict_judge / fetch_webpage
  rec,           \* strict_judge: url, school_name, college_name, province
  all_checks,    \* strict_judge: all_checks
  evaluated,     \* the steps strict_judge has executed for this row, in order
  result,        \* the dict strict_judge returned
  html,          \* strict_judge: html
  status_code,   \* strict_judge: status_code
  final_url,     \* fetch_webpage / strict_judge: final_url
  attempt,       \* fetch_webpage: attempt
  pages_open,    \* pages created by context.new_page() and not closed
  playwright,    \* self.playwright is not None
  browser,       \* self.browser is not None
  context,       \* self.context is not None
  status,        \* fetch_webpage: status_code of the attempt in progress, 0 while unassigned
  goto_calls,    \* page.goto calls of the fetch_webpage call in progress
  sleeps         \* time.sleep calls of the fetch_webpage call in progress:
                 \* 0 for the _random_delay, 2 ** attempt for a retry delay

vars == <<nrecords, idx, results, pc, rec, all_checks, evaluated, result, html,
          status_code, final_url, attempt, pages_open, playwright, browser,
          context, status, goto_calls, sleeps>>

session == <<playwright, browser, context>>

fetch_locals == <<html, status_code, final_url, attempt>>

NoRow == Row(<<>>, <<>>, <<>>, <<>>)

NoResult == [is_graduate_site |-> "", failed_condition |-> "", reasons |-> <<>>]

Entry(label, o) == [label |-> label, kind |-> o.kind]

Note(label, kind) == [label |-> label, kind |-> kind]

Init ==
  /\ nrecords \in 0..MaxRecords
  /\ idx = 0
  /\ results = <<>>
  /\ pc = "main"
  /\ rec = NoRow
  /\ all_checks = <<>>
  /\ evaluated = <<>>
  /\ result = NoResult
  /\ html = HtmlEmpty
  /\ status_code = 0
  /\ final_url = <<>>
  /\ attempt = 0
  /\ pages_open = 0
  /\ playwright = FALSE
  /\ browser = FALSE
  /\ context = FALSE
  /\ status = 0
  /\ goto_calls = 0
  /\ sleeps = <<>>

-----------------------------------------------------------------------------
(* main: the loop over the rows *)

\* for idx, row in df.iterrows(): ... checker.strict_judge(url, school, college, province)
MainNextRow ==
  /\ pc = "main"
  /\ idx < nrecords
  /\ \E r \in Records : rec' = r
  /\ pc' = "OfficialCheck1"
  /\ UNCHANGED <<nrecords, idx, results, all_checks, evaluated, result, fetch_locals,
                 pages_open, session, status, goto_calls, sleeps>>

\* results.append({...}); the locals of strict_judge are gone
MainAppend ==
  /\ pc = "returned"
  /\ results' = Append(results, result.is_graduate_site)
  /\ idx' = idx + 1
  /\ pc' = "main"
  /\ rec' = NoRow
  /\ all_checks' = <<>>
  /\ evaluated' = <<>>
  /\ result' = NoResult
  /\ html' = HtmlEmpty
  /\ status_code' = 0
  /\ final_url' = <<>>
  /\ attempt' = 0
  /\ status' = 0
  /\ goto_calls' = 0
  /\ sleeps' = <<>>
  /\ UNCHANGED <<nrecords, pages_open, session>>

\* _close_browser: the three handles are None afterwards
ClosedSession == <<FALSE, FALSE, FALSE>>

\* the close calls of _close_browser that can raise
CloseSteps == {"context", "browser", "playwright"}

\* one block of _close_browser that resets the handle only when the close
\* call did not raise
CloseHandleNoFinally(handle, raises) == handle /\ raises

\* one block of _close_browser: try: if handle: handle.close(); except
\* Exception: warning; finally: handle = None.  The handle afterwards.
CloseHandle(handle, raises) == FALSE

\* _close_browser with one try statement around the three close calls: the
\* first close call that raises leaves its handle and the later ones as
\* they were
close_browser_one_try(handles, errors) ==
  LET c == handles[3] /\ "context" \in errors
      b == c \/ (handles[2] /\ "browser" \in errors)
      p == b \/ (handles[1] /\ "playwright" \in errors)
  IN  <<handles[1] /\ p, handles[2] /\ b, handles[3] /\ c>>

\* _close_browser on <<playwright, browser, context>>; errors: the close
\* calls that raise
close_browser(handles, errors) ==
  <<CloseHandle(handles[1], "playwright" \in errors),
    CloseHandle(handles[2], "browser" \in errors),
    CloseHandle(handles[3], "context" \in errors)>>

\* self.playwright, self.browser, self.context = h
SetSession(h) ==
  /\ playwright' = h[1]
  /\ browser' = h[2]
  /\ context' = h[3]

\* finally: checker._close_browser(), after the loop or with an exception in flight
MainFinally ==
  /\ \/ pc = "main" /\ idx = nrecords /\ pc' = "saved"
     \/ pc = "raised" /\ pc' = "aborted"
     \/ pc = "interrupted" /\ pc' = "cancelled"
  /\ \E errors \in SUBSET CloseSteps : SetSession(close_browser(session, errors))
  /\ pages_open' = 0
  /\ UNCHANGED <<nrecords, idx, results, rec, all_checks, evaluated, result, fetch_locals,
                 status, goto_calls, sleeps>>

-----------------------------------------------------------------------------
(* strict_judge *)

\* return {'url': url, 'is_graduate_site': v, 'failed_condition': f, 'reasons': ...}
Return(v, f, reasons) ==
  /\ result' = [is_graduate_site |-> v, failed_condition |-> f, reasons |-> reasons]
  /\ pc' = "returned"

Continue(next) ==
  /\ pc' = next
  /\ UNCHANGED result

\* condition 4 on the original url
OfficialCheck1 ==
  /\ pc = "OfficialCheck1"
  /\ LET o      == check_is_official(rec.url)
         checks == Append(all_checks, Entry("C4-official", o))
     IN  /\ all_checks' = checks
         /\ IF ~o.passed THEN Return("No", "C4:official", checks)
            ELSE Continue("CollegeCheckURL")
  /\ evaluated' = Append(evaluated, "OfficialCheck1")
  /\ UNCHANGED <<nrecords, idx, results, rec, fetch_locals, pages_open, session,
                 status, goto_calls, sleeps>>

\* CollegeCheckURL without the return on failure
CollegeCheckURLNoReturn ==
  /\ pc = "CollegeCheckURL"
  /\ LET o      == check_not_college_level(rec.url, rec.college, HtmlNone)
         checks == Append(all_checks, Entry("C1-url", o))
     IN  /\ all_checks' = checks
         /\ Continue("Fetch")
  /\ evaluated' = Append(evaluated, "CollegeCheckURL")
  /\ UNCHANGED <<nrecords, idx, results, rec, fetch_locals, pages_open, session,
                 status, goto_calls, sleeps>>

\* condition 1, URL layer: check_not_college_level(url, college_name, None)
CollegeCheckURL ==
  /\ pc = "CollegeCheckURL"
  /\ LET o      == check_not_college_level(rec.url, rec.college, HtmlNone)
         checks == Append(all_checks, Entry("C1-url", o))
     IN  /\ all_checks' = checks
         /\ IF ~o.passed THEN Return("No", "C1:url", checks)
            ELSE Continue("Fetch")
  /\ evaluated' = Append(evaluated, "CollegeCheckURL")
  /\ UNCHANGED <<nrecords, idx, results, rec, fetch_locals, pages_open, session,
                 status, goto_calls, sleeps>>

FetchFailedReturnNo == <<"No", "unreachable">>

FetchFailedReturnBlank == <<"Uncertain", "">>

\* the dict returned when status_code != 200: is_graduate_site, failed_condition
FetchFailedReturn == <<"Uncertain", "unreachable">>

NextAfterFetchNoRecheck(url, landed) == "ChineseCheck"

\* if final_url != url: re-check condition 4, else go on to condition 2
NextAfterFetch(url, landed) == IF landed # url THEN "OfficialCheck2" ELSE "ChineseCheck"

\* html, status_code, final_url = self.fetch_webpage(url); the status test
JudgeFetched ==
  /\ pc = "Fetched"
  /\ IF status_code # 200
     THEN LET checks == Append(all_checks, Note("fetch", "fetch_failed"))
          IN  /\ all_checks' = checks
              /\ Return(FetchFailedReturn[1], FetchFailedReturn[2], checks)
     ELSE /\ all_checks' = Append(all_checks, Note("fetch", "fetch_ok"))
          /\ Continue(NextAfterFetch(rec.url, final_url))
  /\ UNCHANGED <<nrecords, idx, results, rec, evaluated, fetch_locals, pages_open, session,
                 status, goto_calls, sleeps>>

\* if final_url != url: condition 4 on the url after the redirect
OfficialCheck2 ==
  /\ pc = "OfficialCheck2"
  /\ LET o      == check_is_official(final_url)
         checks == Append(all_checks, Note("redirect", "redirected"))
     IN  /\ all_checks' = checks
         /\ IF ~o.passed THEN Return("No", "C4:redirect", Append(checks, Entry("", o)))
            ELSE Continue("ChineseCheck")
  /\ evaluated' = Append(evaluated, "OfficialCheck2")
  /\ UNCHANGED <<nrecords, idx, results, rec, fetch_locals, pages_open, session,
                 status, goto_calls, sleeps>>

\* condition 2
ChineseCheck ==
  /\ pc = "ChineseCheck"
  /\ LET o      == check_is_chinese(final_url, html)
         checks == Append(all_checks, Entry("C2-chinese", o))
     IN  /\ all_checks' = checks
         /\ IF ~o.passed THEN Return("No", "C2:chinese", checks)
            ELSE Continue("TargetSchoolCheck")
  /\ evaluated' = Append(evaluated, "ChineseCheck")
  /\ UNCHANGED <<nrecords, idx, results, rec, fetch_locals, pages_open, session,
                 status, goto_calls, sleeps>>

\* condition 3
TargetSchoolCheck ==
  /\ pc = "TargetSchoolCheck"
  /\ LET o      == check_is_target_school(final_url, rec.school, html)
         checks == Append(all_checks, Entry("C3-school", o))
     IN  /\ all_checks' = checks
         /\ IF ~o.passed THEN Return("No", "C3:school", checks)
            ELSE Continue("CollegeCheckContent")
  /\ evaluated' = Append(evaluated, "TargetSchoolCheck")
  /\ UNCHANGED <<nrecords, idx, results, rec, fetch_locals, pages_open, session,
                 status, goto_calls, sleeps>>

\* condition 1, content layer: check_not_college_level(final_url, college_name, html)
CollegeCheckContent ==
  /\ pc = "CollegeCheckContent"
  /\ LET o      == check_not_college_level(final_url, rec.college, html)
         checks == Append(all_checks, Entry("C1-content", o))
     IN  /\ all_checks' = checks
         /\ IF ~o.passed THEN Return("No", "C1:content", checks)
            ELSE Continue("MultiCampus")
  /\ evaluated' = Append(evaluated, "CollegeCheckContent")
  /\ UNCHANGED <<nrecords, idx, results, rec, fetch_locals, pages_open, session,
                 status, goto_calls, sleeps>>

\* is_multi_campus = self.is_multi_campus_school(school_name);
\* if is_multi_campus and province: ... else: skip the province check and return '是'
MultiCampus ==
  /\ pc = "MultiCampus"
  /\ IF ~IsStr(rec.school)
     THEN \* TypeError in 'multi_school in school_name': nothing catches it
          /\ pc' = "raised"
          /\ UNCHANGED <<all_checks, result>>
     ELSE LET is_multi_campus == is_multi_campus_school(rec.school)
              skipped == Append(all_checks,
                                IF is_multi_campus
                                THEN Note("multi-campus", "no_province_given")
                                ELSE Note("not-multi-campus", "skipped"))
          IN  IF is_multi_campus /\ Truthy(rec.province)
              THEN /\ Continue("ProvinceCheck")
                   /\ UNCHANGED all_checks
              ELSE /\ all_checks' = skipped
                   /\ Return("Yes", "", skipped)
  /\ UNCHANGED <<nrecords, idx, results, rec, evaluated, fetch_locals, pages_open, session,
                 status, goto_calls, sleeps>>

\* ProvinceVerdict that reports an uncertain province match as a mismatch
ProvinceVerdictUncertainAsNo(o) ==
  LET checks == all_checks \o <<Note("multi-campus", "needs_province"),
                                Entry("C5-province", o)>>
  IN  /\ all_checks' = checks
      /\ IF o.certain /\ o.result = "Yes" THEN Return("Yes", "", checks)
         ELSE Return("No", "C5:mismatch", checks)

\* all_checks.append(reason) and the return of condition 5
ProvinceVerdict(o) ==
  LET checks == all_checks \o <<Note("multi-campus", "needs_province"),
                                Entry("C5-province", o)>>
  IN  /\ all_checks' = checks
      /\ IF o.certain
         THEN IF o.result = "Yes" THEN Return("Yes", "", checks)
              ELSE Return("No", "C5:mismatch", checks)
         ELSE Return("Uncertain", "C5:uncertain", checks)

\* condition 5
ProvinceCheck ==
  /\ pc = "ProvinceCheck"
  /\ ProvinceVerdict(check_province_match(rec.province, html))
  /\ evaluated' = Append(evaluated, "ProvinceCheck")
  /\ UNCHANGED <<nrecords, idx, results, rec, fetch_locals, pages_open, session,
                 status, goto_calls, sleeps>>

-----------------------------------------------------------------------------
(* fetch_webpage *)

\* final_url = url; for attempt in range(max_retries):
FetchBegin ==
  /\ pc = "Fetch"
  /\ final_url' = rec.url
  /\ attempt' = 0
  /\ sleeps' = <<>>
  /\ evaluated' = Append(evaluated, "Fetch")
  /\ pc' = "attempt"
  /\ UNCHANGED <<nrecords, idx, results, rec, all_checks, result, html, status_code,
                 pages_open, session, status, goto_calls>>

\* 2 ** attempt
RECURSIVE Pow2(_)
Pow2(n) == IF n = 0 THEN 1 ELSE 2 * Pow2(n - 1)

\* the steps of _init_browser that can raise
InitSteps == {"start", "launch", "new_context"}

\* the handles after the steps of _init_browser that come before the one
\* that raises, all three when none does
Built(handles, failed) ==
  IF failed = "start" THEN handles
  ELSE IF failed = "launch" THEN <<TRUE, handles[2], handles[3]>>
  ELSE IF failed = "new_context" THEN <<TRUE, TRUE, handles[3]>>
  ELSE <<TRUE, TRUE, TRUE>>

\* _init_browser that builds a session even when one is ready
InitBrowserAlways(handles, failed, errors) ==
  IF failed = "" THEN Built(close_browser(handles, errors), failed)
  ELSE close_browser(Built(close_browser(handles, errors), failed), errors)

\* _init_browser without the _close_browser of its except clause
InitBrowserNoTeardown(handles, failed, errors) ==
  IF handles[3] THEN handles
  ELSE Built(close_browser(handles, errors), failed)

\* _init_browser: the handles afterwards.  failed is "" or the step that
\* raises, errors the close calls that raise.  With a context it returns at
\* once; otherwise it calls _close_browser and builds the three handles in
\* order, and on an exception _close_browser resets what was built.
InitBrowser(handles, failed, errors) ==
  IF handles[3] THEN handles
  ELSE IF failed = "" THEN Built(close_browser(handles, errors), failed)
  ELSE close_browser(Built(close_browser(handles, errors), failed), errors)

\* one iteration up to self._init_browser(): the delay, then the session
AttemptBegin ==
  /\ pc = "attempt"
  /\ attempt < MaxRetries
  /\ sleeps' = Append(sleeps, IF attempt > 0 THEN Pow2(attempt) ELSE 0)
  /\ \E failed \in IF context THEN {""} ELSE InitSteps \cup {""},
        errors \in SUBSET CloseSteps :
       /\ SetSession(InitBrowser(session, failed, errors))
       /\ IF failed = ""
          THEN /\ pc' = "new_page"
               /\ UNCHANGED attempt
          ELSE \* raise; except Exception of the attempt; next attempt
               /\ pc' = "attempt"
               /\ attempt' = attempt + 1
       /\ pages_open' = IF context THEN pages_open ELSE 0
  /\ UNCHANGED <<nrecords, idx, results, rec, all_checks, evaluated, result, html,
                 status_code, final_url, status, goto_calls>>

\* page = self.context.new_page()
NewPage ==
  /\ pc = "new_page"
  /\ \E ok \in BOOLEAN :
       IF ok
       THEN /\ pages_open' = pages_open + 1
            /\ pc' = "goto"
            /\ UNCHANGED attempt
       ELSE /\ pc' = "attempt"
            /\ attempt' = attempt + 1
            /\ UNCHANGED pages_open
  /\ UNCHANGED <<nrecords, idx, results, rec, all_checks, evaluated, result, html,
                 status_code, final_url, session, status, goto_calls, sleeps>>

\* the attempt ends without a return: finally: page.close(), which does
\* nothing to a page already closed; the loop goes on
NextAttempt ==
  /\ pages_open' = IF pages_open > 0 THEN pages_open - 1 ELSE 0
  /\ attempt' = attempt + 1
  /\ pc' = "attempt"
  /\ UNCHANGED <<html, status_code>>

\* return html, status_code, final_url: the caller receives the triple, the
\* call's own locals and its delay and navigation records end with it
FetchReturn(content, code) ==
  /\ html' = content
  /\ status_code' = code
  /\ pc' = "Fetched"
  /\ attempt' = 0
  /\ status' = 0
  /\ goto_calls' = 0
  /\ sleeps' = <<>>

\* GotoRaises without the page.close() of the finally clause
GotoRaisesLeak ==
  /\ pc = "goto"
  /\ goto_calls' = goto_calls + 1
  /\ attempt' = attempt + 1
  /\ pc' = "attempt"
  /\ UNCHANGED <<nrecords, idx, results, rec, all_checks, evaluated, result, html,
                 status_code, final_url, pages_open, session, status, sleeps>>

\* page.goto raises (navigation error, timeout): final_url keeps its value
GotoRaises ==
  /\ pc = "goto"
  /\ goto_calls' = goto_calls + 1
  /\ NextAttempt
  /\ UNCHANGED <<nrecords, idx, results, rec, all_checks, evaluated, result, final_url,
                 session, status, sleeps>>

\* status_code = response.status if response else 200
StatusOf(response) == IF response = ResponseNone THEN 200 ELSE response

\* page.goto returns and final_url = page.url; then wait_for_timeout or
\* content raises with status_code not yet assigned, or the page.close()
\* before the return raises with status_code assigned
GotoThenRaises ==
  /\ pc = "goto"
  /\ goto_calls' = goto_calls + 1
  /\ \E u \in LandingUrls(rec.url) : final_url' = u
  /\ \E s \in {status} \cup {StatusOf(response) : response \in Responses} : status' = s
  /\ NextAttempt
  /\ UNCHANGED <<nrecords, idx, results, rec, all_checks, evaluated, result,
                 session, sleeps>>

\* the navigation completes: final_url = page.url; html = page.content();
\* status_code = response.status if response else 200; page.close()
GotoLoads ==
  /\ pc = "goto"
  /\ goto_calls' = goto_calls + 1
  /\ \E u \in LandingUrls(rec.url) : final_url' = u
  /\ \E response \in Responses : status' = StatusOf(response)
  /\ pages_open' = pages_open - 1
  /\ pc' = "closed"
  /\ UNCHANGED <<nrecords, idx, results, rec, all_checks, evaluated, result, html,
                 status_code, attempt, session, sleeps>>

\* AttemptEnd that goes on to the next attempt whatever the status
AttemptEndNoReturn ==
  /\ pc = "closed"
  /\ NextAttempt
  /\ UNCHANGED <<nrecords, idx, results, rec, all_checks, evaluated, result, final_url,
                 session, status, goto_calls, sleeps>>

\* if status_code == 200: return html, status_code, final_url, with the html
\* page.content() gave in this attempt; else: the warning and the next attempt
AttemptEnd ==
  /\ pc = "closed"
  /\ IF status = 200
     THEN /\ \E content \in Contents : FetchReturn(content, status)
          /\ UNCHANGED <<final_url, pages_open>>
     ELSE /\ NextAttempt
          /\ UNCHANGED <<final_url, status, goto_calls, sleeps>>
  /\ UNCHANGED <<nrecords, idx, results, rec, all_checks, evaluated, result, session>>

\* FetchExhausted that returns the status of the last attempt
FetchExhaustedLastStatus ==
  /\ pc = "attempt"
  /\ attempt >= MaxRetries
  /\ FetchReturn(HtmlEmpty, status)
  /\ UNCHANGED <<nrecords, idx, results, rec, all_checks, evaluated, result, final_url,
                 pages_open, session>>

\* the loop is over: return "", 0, final_url
FetchExhausted ==
  /\ pc = "attempt"
  /\ attempt >= MaxRetries
  /\ FetchReturn(HtmlEmpty, 0)
  /\ UNCHANGED <<nrecords, idx, results, rec, all_checks, evaluated, result, final_url,
                 pages_open, session>>

-----------------------------------------------------------------------------
(* an exception that no handler below main catches *)

\* a KeyboardInterrupt arrives while the loop of main runs.  It is not an
\* Exception: no except clause of fetch_webpage or of the checks catches it,
\* the finally clause of the attempt closes the page if there is one, and
\* the frames of fetch_webpage and strict_judge are gone when it reaches the
\* try statement of main.
Interrupt ==
  /\ pc \notin {"saved", "aborted", "cancelled", "raised", "interrupted"}
  /\ idx < nrecords
  /\ pc' = "interrupted"
  /\ pages_open' = 0
  /\ rec' = NoRow
  /\ all_checks' = <<>>
  /\ evaluated' = <<>>
  /\ result' = NoResult
  /\ html' = HtmlEmpty
  /\ status_code' = 0
  /\ final_url' = <<>>
  /\ attempt' = 0
  /\ status' = 0
  /\ goto_calls' = 0
  /\ sleeps' = <<>>
  /\ UNCHANGED <<nrecords, idx, results, session>>

-----------------------------------------------------------------------------

Next ==
  \/ MainNextRow
  \/ OfficialCheck1
  \/ CollegeCheckURL
  \/ FetchBegin
  \/ AttemptBegin
  \/ NewPage
  \/ GotoRaises
  \/ GotoThenRaises
  \/ GotoLoads
  \/ AttemptEnd
  \/ FetchExhausted
  \/ JudgeFetched
  \/ OfficialCheck2
  \/ ChineseCheck
  \/ TargetSchoolCheck
  \/ CollegeCheckContent
  \/ MultiCampus
  \/ ProvinceCheck
  \/ MainAppend
  \/ Interrupt
  \/ MainFinally

Spec == Init /\ [][Next]_vars

-----------------------------------------------------------------------------
(* Vocabulary of the properties *)

\* 'gs.chsi.com.cn'
host_chsi == <<103, 115, 46, 99, 104, 115, 105, 46, 99, 111, 109, 46, 99, 110>>

\* the host of a URL: its authority without 'userinfo@' and ':port', lower-cased;
\* '' when the URL has no authority or cannot be parsed
HostOf(url) ==
  IF UrlparseRaises(url) THEN <<>>
  ELSE LET n     == Netloc(url)
           ats   == {i \in 1..Len(n) : n[i] = 64}
           from  == IF ats = {} THEN 1 ELSE 1 + CHOOSE i \in ats : \A j \in ats : i >= j
           hp    == SubSeq(n, from, Len(n))
           colon == FindChar(hp, 58, 1)
       IN  Lower(IF colon = 0 THEN hp ELSE SubSeq(hp, 1, colon - 1))

\* the host is not under .edu.cn, or names a blacklisted third party
NonOfficialHost(url) ==
  \/ ~EndsWith(HostOf(url), dot_edu_cn)
  \/ \E d \in Range(third_party_domains) : Contains(HostOf(url), d)

\* the URL contains a college-path pattern, letter case ignored
HasCollegePath(url) ==
  \E d \in Range(college_path_patterns) :
    \E i \in 1..Len(url) : /\ i + Len(d) - 1 <= Len(url)
                           /\ \A k \in 1..Len(d) : LowerChar(url[i + k - 1]) = d[k]

\* strict_judge has a row in hand
Judging == rec # NoRow

\* strict_judge has returned for the row in hand
Returned == pc = "returned"

Called(step) == step \in Range(evaluated)

LastCalled == evaluated[Len(evaluated)]

\* nothing of the fetch machinery moves in this step
NoFetchActivity ==
  UNCHANGED <<playwright, browser, context, pages_open, status, goto_calls, sleeps,
              html, status_code, final_url, attempt>>

-----------------------------------------------------------------------------
(* C1 *)

\* C1: while strict_judge handles a row whose URL host does not end in
\* '.edu.cn', the only steps are the official-domain check returning '否'
\* under condition 4 and main taking the result, unless an interrupt ends
\* the run: fetch_webpage is not entered, the browser session is not
\* touched and no page is opened.
C1_NonEduCnNeverFetched ==
  [][(Judging /\ ~EndsWith(HostOf(rec.url), dot_edu_cn)) =>
       /\ pc' \in {"returned", "main", "interrupted"}
       /\ pc' = "returned" => /\ result'.is_graduate_site = "No"
                              /\ result'.failed_condition = "C4:official"
                              /\ evaluated' = <<"OfficialCheck1">>
       /\ NoFetchActivity]_vars

\* a row with a non-.edu.cn host is rejected while a session from an earlier
\* row is Ready
C1_Witness ==
  /\ Returned
  /\ IsStr(rec.url)
  /\ HostOf(rec.url) # <<>>
  /\ ~EndsWith(HostOf(rec.url), dot_edu_cn)
  /\ result.is_graduate_site = "No"
  /\ context

-----------------------------------------------------------------------------
(* C2 *)

\* C2: for a row whose URL passes the official-domain check and contains a
\* college-path pattern in any letter case, strict_judge is only ever at the
\* two URL checks or at its return, which is '否' with the URL-layer
\* condition-1 failure; fetch_webpage is never entered, so nothing a page
\* could hold changes the outcome.
C2_CollegePathRejectedUnfetched ==
  (Judging /\ HasCollegePath(rec.url) /\ check_is_official(rec.url).passed) =>
     /\ pc \in {"OfficialCheck1", "CollegeCheckURL", "returned"}
     /\ ~Called("Fetch")
     /\ html = HtmlEmpty /\ status_code = 0 /\ goto_calls = 0 /\ sleeps = <<>>
     /\ Returned => /\ result.is_graduate_site = "No"
                    /\ result.failed_condition = "C1:url"
                    /\ evaluated = <<"OfficialCheck1", "CollegeCheckURL">>

\* a URL whose college path is written in upper case is rejected at the URL layer
C2_Witness ==
  /\ Returned
  /\ check_is_official(rec.url).passed
  /\ HasCollegePath(rec.url)
  /\ \A d \in Range(college_path_patterns) : ~Contains(rec.url, d)
  /\ result.failed_condition = "C1:url"

-----------------------------------------------------------------------------
(* C3 *)

\* the verdict of the row whose host is gs.chsi.com.cn, with the reason kind
\* the official-domain check gave
ChsiVerdict(kind) ==
  (Returned /\ HostOf(rec.url) = host_chsi) =>
     /\ result.is_graduate_site = "No"
     /\ result.failed_condition = "C4:official"
     /\ evaluated = <<"OfficialCheck1">>
     /\ Len(result.reasons) = 1
     /\ result.reasons[1].label = "C4-official"
     /\ result.reasons[1].kind = kind

\* C3 as stated: the host gs.chsi.com.cn is refused with the 'third-party
\* site' reason (第三方网站), verdict '否', condition 4, nothing fetched.
C3_ChsiThirdPartyReason == ChsiVerdict("third_party")

\* C3 amended: the host gs.chsi.com.cn is refused with the 'non-.edu.cn
\* domain' reason (非.edu.cn域名), since the blacklist is consulted only for
\* hosts ending in '.edu.cn'; verdict '否', condition 4, nothing fetched.
C3_ChsiNonEduCnReason == ChsiVerdict("not_edu_cn")

\* the row with host gs.chsi.com.cn has been judged
C3_Witness ==
  /\ Returned
  /\ HostOf(rec.url) = host_chsi
  /\ Contains(HostOf(rec.url), third_party_domains[1])
  /\ result.is_graduate_site = "No"

-----------------------------------------------------------------------------
(* C4 *)

\* C4: when fetch_webpage has used up its attempts (it hands back a status
\* other than 200), strict_judge returns '不确定' with 'cannot reach the
\* page' as the failed condition, never '否', and at no point does an
\* exception leave strict_judge.
C4_ExhaustedFetchIsUncertain ==
  /\ pc \notin {"raised", "aborted"}
  /\ (Returned /\ Called("Fetch") /\ status_code # 200) =>
        /\ result.is_graduate_site = "Uncertain"
        /\ result.failed_condition = "unreachable"
        /\ LastCalled = "Fetch"

\* a fetch whose attempts all failed after a navigation reached another URL
C4_Witness ==
  /\ Returned
  /\ Called("Fetch")
  /\ status_code = 0
  /\ final_url # rec.url
  /\ result.is_graduate_site = "Uncertain"

-----------------------------------------------------------------------------
(* C5 *)

\* the school name contains a configured multi-campus name and a province
\* was supplied
ProvinceApplies ==
  /\ \E m \in Range(multi_campus_schools) : Contains(rec.school, m)
  /\ rec.province # <<>>

\* every check that applies to the row in hand passes on what was fetched
AllApplicablePass ==
  /\ check_is_official(rec.url).passed
  /\ check_not_college_level(rec.url, rec.college, HtmlNone).passed
  /\ Called("Fetch")
  /\ status_code = 200
  /\ check_is_official(final_url).passed
  /\ check_is_chinese(final_url, html).passed
  /\ check_is_target_school(final_url, rec.school, html).passed
  /\ check_not_college_level(final_url, rec.college, html).passed
  /\ ProvinceApplies =>
        /\ check_province_match(rec.province, html).certain
        /\ check_province_match(rec.province, html).result = "Yes"

\* C5: strict_judge returns '是' exactly when every applicable check passed:
\* both official-domain checks, both non-college checks, the fetch with
\* status 200, the Chinese and target-school checks, and the province match
\* answering a certain 'yes'; the province match is invoked exactly for a
\* school whose name contains a multi-campus name when a province is given.
C5_YesIffAllApplicablePass ==
  Returned =>
    /\ result.is_graduate_site = "Yes" <=> AllApplicablePass
    /\ Called("ProvinceCheck") => ProvinceApplies
    /\ (result.is_graduate_site = "Yes" /\ ProvinceApplies) => Called("ProvinceCheck")

\* a '是' for a school whose name contains a multi-campus name without being
\* equal to it, decided by the province match
C5_Witness ==
  /\ Returned
  /\ result.is_graduate_site = "Yes"
  /\ Called("ProvinceCheck")
  /\ rec.school \notin Range(multi_campus_schools)

-----------------------------------------------------------------------------
(* C6 *)

\* C6: every dict strict_judge returns has an empty failed_condition exactly
\* when its verdict is '是'; a '否' or '不确定' always names a condition.
C6_FailedConditionEmptyIffYes ==
  Returned =>
    /\ result.is_graduate_site \in {"Yes", "No", "Uncertain"}
    /\ result.failed_condition = "" <=> result.is_graduate_site = "Yes"

\* an '不确定' that names the fetch as the failed condition
C6_Witness ==
  /\ Returned
  /\ result.is_graduate_site = "Uncertain"
  /\ result.failed_condition = "unreachable"

-----------------------------------------------------------------------------
(* C7 *)

\* the steps of strict_judge in their fixed order
StepOrder ==
  <<"OfficialCheck1", "CollegeCheckURL", "Fetch", "OfficialCheck2", "ChineseCheck",
    "TargetSchoolCheck", "CollegeCheckContent", "ProvinceCheck">>

StepIndex(step) == CHOOSE i \in 1..Len(StepOrder) : StepOrder[i] = step

\* the outcome of a step on the row in hand and what was fetched for it
StepPasses(step) ==
  CASE step = "OfficialCheck1" -> check_is_official(rec.url).passed
    [] step = "CollegeCheckURL" -> check_not_college_level(rec.url, rec.college, HtmlNone).passed
    [] step = "Fetch" -> status_code = 200
    [] step = "OfficialCheck2" -> check_is_official(final_url).passed
    [] step = "ChineseCheck" -> check_is_chinese(final_url, html).passed
    [] step = "TargetSchoolCheck" -> check_is_target_school(final_url, rec.school, html).passed
    [] step = "CollegeCheckContent" -> check_not_college_level(final_url, rec.college, html).passed
    [] step = "ProvinceCheck" -> /\ check_province_match(rec.province, html).certain
                                 /\ check_province_match(rec.province, html).result = "Yes"

\* the step a failed_condition names
FailedStep(failed) ==
  CASE failed = "C4:official" -> "OfficialCheck1"
    [] failed = "C1:url" -> "CollegeCheckURL"
    [] failed = "unreachable" -> "Fetch"
    [] failed = "C4:redirect" -> "OfficialCheck2"
    [] failed = "C2:chinese" -> "ChineseCheck"
    [] failed = "C3:school" -> "TargetSchoolCheck"
    [] failed = "C1:content" -> "CollegeCheckContent"
    [] failed \in {"C5:mismatch", "C5:uncertain"} -> "ProvinceCheck"
    [] OTHER -> "none"

\* C7: the steps strict_judge has executed always follow the fixed order
\* official(original), non-college(URL), fetch, official(redirected),
\* Chinese, target school, non-college(content), province, skipping at most
\* the redirect check (no redirect) and the province check (not applicable);
\* every step before the last one passed, and a verdict other than '是'
\* names the last step executed, which is the first one that failed.
C7_SequentialShortCircuit ==
  /\ evaluated # <<>> => evaluated[1] = "OfficialCheck1"
  /\ \A i \in 1..(Len(evaluated) - 1) :
       \/ StepIndex(evaluated[i + 1]) = StepIndex(evaluated[i]) + 1
       \/ evaluated[i] = "Fetch" /\ evaluated[i + 1] = "ChineseCheck" /\ final_url = rec.url
  /\ Returned =>
       /\ \A i \in 1..(Len(evaluated) - 1) : StepPasses(evaluated[i])
       /\ result.is_graduate_site # "Yes" =>
            /\ FailedStep(result.failed_condition) = LastCalled
            /\ ~StepPasses(LastCalled)
       /\ result.is_graduate_site = "Yes" => StepPasses(LastCalled)

\* a URL that is both non-official and on a college path is reported under
\* condition 4
C7_Witness ==
  /\ Returned
  /\ ~check_is_official(rec.url).passed
  /\ IsStr(rec.url)
  /\ ~check_not_college_level(rec.url, rec.college, HtmlNone).passed
  /\ result.failed_condition = "C4:official"
  /\ evaluated = <<"OfficialCheck1">>

-----------------------------------------------------------------------------
(* C8 *)

\* the label under which a step's reason is recorded
StepLabel(step) ==
  CASE step = "OfficialCheck1" -> "C4-official"
    [] step = "CollegeCheckURL" -> "C1-url"
    [] step = "Fetch" -> "fetch"
    [] step = "OfficialCheck2" -> "C4-official"
    [] step = "ChineseCheck" -> "C2-chinese"
    [] step = "TargetSchoolCheck" -> "C3-school"
    [] step = "CollegeCheckContent" -> "C1-content"
    [] step = "ProvinceCheck" -> "C5-province"

\* the labels that carry no check result: the redirect notice and the
\* multi-campus notices
NoticeLabels == {"redirect", "multi-campus", "not-multi-campus"}

\* C8: the returned 'reasons' holds, in evaluation order, one labeled reason
\* for every step executed, passed or failed, and no unlabeled entry.
C8_TrailHasOneLabeledReasonPerStep ==
  Returned =>
    LET reasons == SelectSeq(result.reasons, LAMBDA e : e.label \notin NoticeLabels)
    IN  /\ \A i \in 1..Len(result.reasons) : result.reasons[i].label # ""
        /\ Len(reasons) = Len(evaluated)
        /\ \A i \in 1..Len(reasons) : reasons[i].label = StepLabel(evaluated[i])

-----------------------------------------------------------------------------
(* C9 *)

ContentSteps == {"ChineseCheck", "TargetSchoolCheck", "CollegeCheckContent", "ProvinceCheck"}

\* C9: when a fetch succeeds on a URL other than the one asked for and that
\* URL's host is not under .edu.cn or names a blacklisted third party,
\* strict_judge returns '否' under condition 4 straight after the redirect
\* check, whatever the page holds: no content check is ever executed.
C9_RedirectToNonOfficialIsNo ==
  (Called("Fetch") /\ status_code = 200 /\ final_url # rec.url /\ NonOfficialHost(final_url)) =>
     /\ pc \in {"Fetched", "OfficialCheck2", "returned"}
     /\ \A step \in ContentSteps : ~Called(step)
     /\ Returned => /\ result.is_graduate_site = "No"
                    /\ result.failed_condition = "C4:redirect"
                    /\ LastCalled = "OfficialCheck2"

\* a redirect to a non-official host is refused although the page it served
\* passes the content checks
C9_Witness ==
  /\ Returned
  /\ final_url # rec.url
  /\ NonOfficialHost(final_url)
  /\ result.failed_condition = "C4:redirect"
  /\ check_is_chinese(final_url, html).passed
  /\ check_is_target_school(final_url, rec.school, html).passed
  /\ check_not_college_level(final_url, rec.college, html).passed

-----------------------------------------------------------------------------
(* C10 *)

\* the distinct provinces extracted from the footer of the fetched page
FooterProvinces == Range(extract_provinces_from_footer(extract_footer(html)))

\* the decision rule of the province match for target t over the set P
ProvinceRule(t, P) ==
  IF P = {} THEN <<FALSE, "Uncertain">>
  ELSE IF Cardinality(P) = 1 THEN (IF P = {t} THEN <<TRUE, "Yes">> ELSE <<TRUE, "No">>)
  ELSE IF t \in P THEN <<FALSE, "Uncertain">>
  ELSE <<TRUE, "No">>

\* C10: whenever the province check is due or done for a row, the answer of
\* check_province_match follows the rule over the set P of provinces found
\* in the footer: P empty or no footer text, uncertain; P = {p}, a certain
\* 'yes' if p is the target and a certain 'no' otherwise; two or more,
\* uncertain if the target is among them and a certain 'no' if it is not.
C10_ProvinceDecisionRule ==
  (pc = "ProvinceCheck" \/ (Returned /\ Called("ProvinceCheck"))) =>
     LET o == check_province_match(rec.province, html)
     IN  /\ <<o.certain, o.result>> = ProvinceRule(rec.province, FooterProvinces)
         /\ extract_footer(html) = <<>> => ~o.certain

\* a footer naming the target province and another one
C10_Witness ==
  /\ Returned
  /\ Called("ProvinceCheck")
  /\ Cardinality(FooterProvinces) >= 2
  /\ rec.province \in FooterProvinces
  /\ result.is_graduate_site = "Uncertain"

-----------------------------------------------------------------------------
(* C11 *)

\* every check before the province match passes on the row in hand and on
\* what was fetched for it
EarlierChecksPass ==
  /\ check_is_official(rec.url).passed
  /\ check_not_college_level(rec.url, rec.college, HtmlNone).passed
  /\ Called("Fetch")
  /\ status_code = 200
  /\ check_is_official(final_url).passed
  /\ check_is_chinese(final_url, html).passed
  /\ check_is_target_school(final_url, rec.school, html).passed
  /\ check_not_college_level(final_url, rec.college, html).passed

\* the verdict and failed_condition strict_judge gives for an answer o of
\* the province match
VerdictOfProvince(o) ==
  IF ~o.certain THEN <<"Uncertain", "C5:uncertain">>
  ELSE IF o.result = "Yes" THEN <<"Yes", "">>
  ELSE <<"No", "C5:mismatch">>

\* C11: for a school whose name contains a multi-campus name, with a
\* non-empty province and a page that passed every earlier check,
\* strict_judge returns from the province match: an uncertain answer gives
\* '不确定' under condition 5 (cannot determine), a certain 'no' gives '否'
\* under condition 5 (mismatch), a certain 'yes' gives '是' with an empty
\* failed_condition.
C11_ProvinceOutcomeToVerdict ==
  (Returned /\ ProvinceApplies /\ EarlierChecksPass) =>
     /\ LastCalled = "ProvinceCheck"
     /\ <<result.is_graduate_site, result.failed_condition>>
          = VerdictOfProvince(check_province_match(rec.province, html))

\* scenario C: 中国地质大学, 湖北, and a footer address naming both 武汉 and
\* 北京 end in '不确定' under condition 5
C11_Witness ==
  /\ Returned
  /\ rec.school = school_cug
  /\ rec.province = prov_hubei
  /\ result.is_graduate_site = "Uncertain"
  /\ result.failed_condition = "C5:uncertain"
  /\ FooterProvinces = {prov_hubei, prov_beijing}

-----------------------------------------------------------------------------
(* C12 *)

\* the positions inside fetch_webpage
FetchPcs == {"attempt", "new_page", "goto", "closed"}

\* the delays of k attempts: the _random_delay (written 0) before the first,
\* 2^i before retry i
ExpectedDelays(k) == [i \in 1..k |-> IF i = 1 THEN 0 ELSE 2^(i - 1)]

\* C12: when an attempt of fetch_webpage ends with status 200 after k-1
\* failed attempts, the call returns at once with status 200 and the URL
\* that attempt observed; k is at most max_retries, and the call has slept
\* exactly k times: the politeness delay before attempt 1 and the backoff
\* 2^i before each retry i = 1..k-1.
C12_First200Returns ==
  [][(pc = "closed" /\ status = 200 /\ pc' \notin {pc, "interrupted"}) =>
        /\ pc' = "Fetched"
        /\ status_code' = 200
        /\ final_url' = final_url
        /\ attempt + 1 <= MaxRetries
        /\ goto_calls <= attempt + 1
        /\ sleeps = ExpectedDelays(attempt + 1)]_vars

\* fail, fail, 200: the third attempt got status 200 after a redirect and
\* two backoff delays
C12_Witness ==
  /\ pc = "closed"
  /\ status = 200
  /\ attempt = 2
  /\ goto_calls = 3
  /\ sleeps = <<0, 2, 4>>
  /\ final_url = url_other

-----------------------------------------------------------------------------
(* C13 *)

\* C13: fetch_webpage returns status 200 or 0 and nothing else; it returns 0
\* only after exactly max_retries attempts, with empty html and the
\* final_url it holds then; final_url is the requested URL when the call
\* starts and changes only in a step that navigates, so it is the URL of
\* the last navigation that completed, or the requested URL.
C13_ExhaustedFetch ==
  [][/\ (pc \in FetchPcs /\ pc' = "Fetched") =>
          /\ status_code' \in {0, 200}
          /\ status_code' = 0 => /\ attempt = MaxRetries
                                 /\ Len(sleeps) = MaxRetries
                                 /\ html' = HtmlEmpty
                                 /\ final_url' = final_url
     /\ (pc = "Fetch" /\ pc' = "attempt") => final_url' = rec.url
     /\ (pc \in FetchPcs \ {"goto"} /\ pc' # "interrupted") => final_url' = final_url
     /\ (pc = "attempt" /\ pc' = "new_page") => attempt < MaxRetries]_vars

\* three failed attempts, one of which had reached another URL
C13_Witness ==
  /\ pc = "Fetched"
  /\ status_code = 0
  /\ html = HtmlEmpty
  /\ final_url = url_other_college

-----------------------------------------------------------------------------
(* C14 *)

\* C14: at most one page is open at any time, and only between new_page
\* and the end of the navigation of the same attempt: after every attempt,
\* however it ended, and whenever fetch_webpage is not running, no page is
\* open.
C14_PagesClosed ==
  /\ pages_open <= 1
  /\ pages_open > 0 => pc = "goto"
  /\ pc = "goto" => pages_open = 1

\* two attempts that opened a page and failed in the navigation
C14_Witness ==
  /\ pc = "attempt"
  /\ attempt = 2
  /\ goto_calls = 2
  /\ pages_open = 0

-----------------------------------------------------------------------------
(* C15 *)

\* the session with its three handles set
ReadySession == <<TRUE, TRUE, TRUE>>

\* the run is over: the finally clause of main has run
RunOver == pc \in {"saved", "cancelled", "aborted"}

-----------------------------------------------------------------------------
(* C16 *)

\* C16: once the try statement of main is left, after the last row or with
\* an exception in flight, the three handles are reset and no page is open.
C16_SessionReleased ==
  RunOver => (session = ClosedSession /\ pages_open = 0)

\* the run is cut short after a row was judged '是' over a live session
C16_Witness ==
  /\ pc = "cancelled"
  /\ idx < nrecords
  /\ idx >= 1
  /\ results[1] = "Yes"
  /\ session = ClosedSession

-----------------------------------------------------------------------------
(* C17 *)

\* C17: an attempt of fetch_webpage in which _init_browser raises leaves
\* all three handles None, whichever step raised; where there is no
\* context _init_browser ends with all three handles set or, when a step
\* raises, with none, so the next attempt builds the session anew.
C17_FailedInitTearsDown ==
  [][/\ (pc = "attempt" /\ pc' = "attempt") => session' = ClosedSession
     /\ (pc = "attempt" /\ pc' = "new_page") => session' = ReadySession
     /\ ~context => \A errors \in SUBSET CloseSteps :
                      /\ InitBrowser(session, "", errors) = ReadySession
                      /\ \A failed \in InitSteps :
                           InitBrowser(session, failed, errors) = ClosedSession]_vars

\* the first attempt for the first row failed in _init_browser
C17_Witness ==
  /\ idx = 0
  /\ pc = "attempt"
  /\ attempt = 1
  /\ goto_calls = 0
  /\ session = ClosedSession

-----------------------------------------------------------------------------
(* C18 *)

Verdicts == {"Yes", "No", "Uncertain"}

\* C18: no exception of a check, of a fetch or of the session leaves
\* strict_judge: every row taken gets a verdict, the results hold one
\* verdict per row handled so far, and a run that reaches the end of the
\* loop has as many verdicts as there are rows.
C18_EveryRowGetsVerdict ==
  /\ pc \notin {"raised", "aborted"}
  /\ Len(results) = idx
  /\ idx <= nrecords
  /\ \A i \in 1..Len(results) : results[i] \in Verdicts
  /\ Returned => result.is_graduate_site \in Verdicts
  /\ pc = "saved" => Len(results) = nrecords

\* the first row could not be fetched, the second one was still judged
C18_Witness ==
  /\ pc = "saved"
  /\ nrecords = 2
  /\ results = <<"Uncertain", "Yes">>

-----------------------------------------------------------------------------
(* C19 *)

\* s has a character in U+4E00..U+9FFF
HasCJK(s) == \E i \in 1..Len(s) : s[i] >= 19968 /\ s[i] <= 40959

\* '招生办公室'
title_zhaosheng == <<25307, 29983, 21150, 20844, 23460>>

\* C19: check_is_chinese passes exactly when there is html whose title,
\* stripped, is not empty and holds a character in U+4E00..U+9FFF: it fails
\* without html, without a title, with a blank title and with a title that
\* has no such character.  '招生办公室' passes, 'Graduate Admission' fails,
\* and the two ends of the range are inside it.
C19_ChineseIffCJKTitle ==
  /\ (pc = "ChineseCheck" \/ Called("ChineseCheck")) =>
        (check_is_chinese(final_url, html).passed
           <=> /\ HtmlTruthy(html)
               /\ html.title # NoneVal
               /\ Strip(html.title) # <<>>
               /\ HasCJK(html.title))
  /\ check_is_chinese(url_ok, Page(title_zhaosheng, <<>>)).passed
  /\ ~check_is_chinese(url_ok, Page(title_latin, <<>>)).passed
  /\ \A c \in {19967, 19968, 40959, 40960} :
        check_is_chinese(url_ok, Page(<<c>>, <<>>)).passed <=> (c >= 19968 /\ c <= 40959)

\* a page with the title 'Graduate Admission' is refused by the language
\* check
C19_Witness ==
  /\ Returned
  /\ LastCalled = "ChineseCheck"
  /\ HtmlTruthy(html)
  /\ html.title = title_latin
  /\ result.failed_condition = "C2:chinese"

-----------------------------------------------------------------------------
(* C20 *)

\* the title of the page holds the school name or its short form
SchoolInTitle(school_name, page) ==
  \/ Contains(PageTitle(page), school_name)
  \/ Contains(PageTitle(page), Remove(Remove(school_name, daxue), xueyuan))

\* text_content.count(school_name) on the page's text without script and style
BodyCount(school_name, page) == Count(GetText(page, TRUE), school_name)

\* C20: for a school name that is a str and html that was retrieved,
\* check_is_target_school fails when the title holds neither the school
\* name nor its short form and the text of the page holds the name 0
\* times, and passes when the text holds it at least once, whatever the
\* title; and a page with at least as many occurrences as one that passes
\* passes as well.
C20_TargetSchoolByBodyCount ==
  ((pc = "TargetSchoolCheck" \/ Called("TargetSchoolCheck"))
      /\ IsStr(rec.school) /\ HtmlTruthy(html)) =>
     LET passed == check_is_target_school(final_url, rec.school, html).passed
         n      == BodyCount(rec.school, html)
     IN  /\ (~SchoolInTitle(rec.school, html) /\ n = 0) => ~passed
         /\ n >= 1 => passed
         /\ passed => \A q \in Pages :
                        BodyCount(rec.school, q) >= n =>
                          check_is_target_school(final_url, rec.school, q).passed

\* the school name is in the text of the page once and not in its title
C20_Witness ==
  /\ Called("TargetSchoolCheck")
  /\ IsStr(rec.school)
  /\ HtmlTruthy(html)
  /\ ~SchoolInTitle(rec.school, html)
  /\ BodyCount(rec.school, html) = 1
  /\ pc = "CollegeCheckContent"

-----------------------------------------------------------------------------
(* C21 *)

\* the college name is in the title of the page, or more than
\* CollegeCountThreshold times in its text
CollegeInContent(college_name, page) ==
  \/ Contains(PageTitle(page), college_name)
  \/ Count(GetText(page, TRUE), college_name) > CollegeCountThreshold

\* C21: the content-layer call of check_not_college_level, whose failure is
\* returned under the content-layer code, fails only when html was
\* retrieved, the college name is a non-empty str, and the title holds the
\* college name or the text holds it more than 5 times; for a row with an
\* empty college name whose URL passed the URL-layer check it passes
\* whatever page and post-redirect URL the fetch returned.
C21_ContentFailureOnlyByCollegeName ==
  /\ (Returned /\ result.failed_condition = "C1:content") =>
        /\ HtmlTruthy(html)
        /\ IsStr(rec.college)
        /\ rec.college # <<>>
        /\ CollegeInContent(rec.college, html)
  /\ (rec.college = <<>> /\ evaluated # <<>> /\ LastCalled = "CollegeCheckContent") =>
        pc = "MultiCampus"

-----------------------------------------------------------------------------
(* C22 *)

\* text_content.count(college_name) on the page's text without script and style
CollegeCount(college_name, page) == Count(GetText(page, TRUE), college_name)

\* the content layer of check_not_college_level is what decides: html was
\* retrieved, the college name is a non-empty str, the post-redirect URL
\* holds no college path and the title does not hold the college name
CountDecides ==
  /\ HtmlTruthy(html)
  /\ IsStr(rec.college)
  /\ rec.college # <<>>
  /\ ~HasCollegePath(final_url)
  /\ ~Contains(PageTitle(html), rec.college)

\* C22: in the content layer of check_not_college_level, with a title that
\* does not hold the college name, the threshold is exclusive: a text with
\* 5 occurrences of the college name or fewer passes, one with 6 or more
\* fails (and is returned as 'No' under the content-layer code).
C22_ThresholdExclusive ==
  ((pc = "CollegeCheckContent" \/ (evaluated # <<>> /\ LastCalled = "CollegeCheckContent"))
      /\ CountDecides) =>
     LET n == CollegeCount(rec.college, html)
         o == check_not_college_level(final_url, rec.college, html)
     IN  /\ n <= 5 => o.passed
         /\ n >= 6 => (~o.passed /\ o.kind = "college_count" /\ o.arg = <<n>>)
         /\ pc # "CollegeCheckContent" =>
               (n >= 6 <=> /\ pc = "returned"
                           /\ result.is_graduate_site = "No"
                           /\ result.failed_condition = "C1:content")

\* the college name is in the text exactly 5 times and the check has passed
C22_Witness ==
  /\ evaluated # <<>>
  /\ LastCalled = "CollegeCheckContent"
  /\ CountDecides
  /\ CollegeCount(rec.college, html) = 5
  /\ pc = "MultiCampus"

-----------------------------------------------------------------------------
(* C23 *)

\* every value of <<playwright, browser, context>>, the parts of a session
\* that _init_browser has built when one of its steps raises included
Handles == BOOLEAN \X BOOLEAN \X BOOLEAN

\* C23: _close_browser leaves the three handles None whichever of its close
\* calls raise, on the session of every reachable state and on every part
\* of a session; no error of a close call keeps a later handle from being
\* reset; and on a session that is closed or was never initialised it
\* changes nothing, so a second call after a first changes nothing either.
C23_CloseBrowserReleasesAll ==
  /\ \A errors \in SUBSET CloseSteps :
       /\ close_browser(session, errors) = ClosedSession
       /\ session = ClosedSession => close_browser(session, errors) = session
       /\ \A again \in SUBSET CloseSteps :
            close_browser(close_browser(session, errors), again)
              = close_browser(session, errors)
  /\ \A handles \in Handles, errors \in SUBSET CloseSteps :
       close_browser(handles, errors) = ClosedSession
  /\ pc \in {"saved", "cancelled"} => session = ClosedSession

\* the run went through all its rows, the last one judged '是' over a live
\* session, and the finally clause of main has called _close_browser
C23_Witness ==
  /\ pc = "saved"
  /\ nrecords >= 1
  /\ idx = nrecords
  /\ results[nrecords] = "Yes"
  /\ session = ClosedSession

=============================================================================
